---- MODULE Spec2Model ----
(***************************************************************************)
(* Model of the maintenance-log tools: export_json.py (load_logs,          *)
(* build_summary, export_to_excel, main) and migrate_logs.py (migrate).    *)
(*                                                                         *)
(* A JSON value is a record [t, n, s]: t is the kind ("null", "num",       *)
(* "str"), n the number, s the text.  Inside a DataFrame two more kinds    *)
(* occur: "nan" (the missing-value marker pandas puts where a record has   *)
(* no such key, and what to_numeric coerces to) and "ts"/"nat" (a parsed   *)
(* timestamp / the not-a-time marker of to_datetime).                      *)
(*                                                                         *)
(* Bounds: the input file is missing, holds a root that is no array, or    *)
(* holds a list of records.  The lists are those of at most MaxLen records *)
(* from one of three families (SchemaRecords, ValueRecords, TextRecords)   *)
(* and the lists of TopN + 1 .. MaxLong old-schema records over up to      *)
(* MaxLong equipments.  Numbers are integers; texts are those of StrOrder, *)
(* dates those of DateTable and the unparseable "bad".                     *)
(***************************************************************************)
EXTENDS Integers, Sequences, FiniteSets, TLC

VARIABLES file, run, pc, err, df, summary, workbook, old_data, new_data, out_json

vars == <<file, run, pc, err, df, summary, workbook, old_data, new_data, out_json>>

-----------------------------------------------------------------------------
(* Values *)

None == [t |-> "null", n |-> 0, s |-> ""]

NaN == [t |-> "nan", n |-> 0, s |-> ""]

NaT == [t |-> "nat", n |-> 0, s |-> ""]

Num(k) == [t |-> "num", n |-> k, s |-> ""]

Str(x) == [t |-> "str", n |-> 0, s |-> x]

Ts(ord, iso) == [t |-> "ts", n |-> ord, s |-> iso]

\* pandas isna(): None, NaN and NaT are all "missing".
isna(v) == v.t \in {"null", "nan", "nat"}

\* Series.fillna(x), element-wise.
fillna(v, x) == IF isna(v) THEN x ELSE v

\* The date strings of the model: day ordinal and "YYYY-MM" period of each.
DateTable ==
    ("2024-01-05" :> [ord |-> 20240105, month |-> "2024-01"]) @@
    ("2024-01-20" :> [ord |-> 20240120, month |-> "2024-01"]) @@
    ("2024-02-10" :> [ord |-> 20240210, month |-> "2024-02"])

\* pd.to_datetime(v, errors="coerce"): a parseable date string becomes a
\* timestamp, anything else ("bad", "", null, missing) becomes NaT.
to_datetime(v) ==
    IF v.t = "str" /\ v.s \in DOMAIN DateTable
    THEN Ts(DateTable[v.s].ord, v.s)
    ELSE NaT

\* .dt.to_period("M").astype(str): "YYYY-MM", and the text "NaT" for NaT.
to_period_M_str(v) ==
    IF v.t = "ts" THEN Str(DateTable[v.s].month) ELSE Str("NaT")

\* The numeric strings of the model.
NumericText == ("7" :> 7) @@ ("-3" :> (0 - 3))

\* pd.to_numeric(v, errors="coerce"): numbers stay, numeric text is parsed,
\* everything else (null, missing, other text) becomes NaN.
to_numeric(v) ==
    IF v.t = "num" THEN v
    ELSE IF v.t = "str" /\ v.s \in DOMAIN NumericText THEN Num(NumericText[v.s])
    ELSE NaN

-----------------------------------------------------------------------------
(* DataFrame: [cols : set of column names, rows : sequence of rows], each  *)
(* row a function from cols to values.                                     *)

EmptyDF == [cols |-> {}, rows |-> <<>>]

\* pd.DataFrame(data) for a list of records: the columns are the union of
\* the records' keys; a record without a key holds NaN in that column.
DataFrame(data) ==
    LET cols == UNION {DOMAIN data[i] : i \in 1..Len(data)}
    IN  [cols |-> cols,
         rows |-> [i \in 1..Len(data) |->
                     [c \in cols |-> IF c \in DOMAIN data[i] THEN data[i][c] ELSE NaN]]]

\* df[c] = series: vals[i] is the new value of column c in row i.
SetCol(d, c, vals) ==
    [cols |-> d.cols \cup {c},
     rows |-> [i \in 1..Len(d.rows) |->
                 [k \in d.cols \cup {c} |-> IF k = c THEN vals[i] ELSE d.rows[i][k]]]]

\* df[c]: the series of column c.
Col(d, c) == [i \in 1..Len(d.rows) |-> d.rows[i][c]]

\* df[c] = scalar: the series that holds v in every row.
Scalar(d, v) == [i \in 1..Len(d.rows) |-> v]

\* Series.fillna(x).
series_fillna(ser, x) == [i \in 1..Len(ser) |-> fillna(ser[i], x)]

-----------------------------------------------------------------------------
(* export_json.py: load_logs *)

\* Lines 25-33: the date column.  The test is on the table's columns, that
\* is on the union of the records' keys.
has_date_column(d) == "date" \in d.cols \/ "Date" \in d.cols

resolve_date(d) ==
    IF "date" \notin d.cols
    THEN SetCol(d, "date", Col(d, "Date"))
    ELSE d

\* Lines 35-36: parse the date, derive the month.
parse_date(d) ==
    LET d1 == SetCol(d, "date", [i \in 1..Len(d.rows) |-> to_datetime(d.rows[i]["date"])])
    IN  SetCol(d1, "month", [i \in 1..Len(d1.rows) |-> to_period_M_str(d1.rows[i]["date"])])

\* Lines 38-46: the downtime column.
resolve_downtime(d) ==
    LET d1 == IF "downtime" \in d.cols THEN d
              ELSE IF "downtime_min" \in d.cols
                   THEN SetCol(d, "downtime", Col(d, "downtime_min"))
                   ELSE SetCol(d, "downtime", Scalar(d, Num(0)))
    IN  SetCol(d1, "downtime",
               series_fillna([i \in 1..Len(d1.rows) |-> to_numeric(d1.rows[i]["downtime"])], Num(0)))

\* Lines 53-57.
col_map ==
    << [target |-> "equipment", candidates |-> <<"asset_id">>],
       [target |-> "rootcause", candidates |-> <<"root_cause">>],
       [target |-> "action",    candidates |-> <<"action_taken">>] >>

\* Line 60.
base_text_cols == <<"line", "section", "category">>

\* Lines 63-66, for one column.
base_text_col(d, col) ==
    IF col \notin d.cols
    THEN SetCol(d, col, Scalar(d, Str("")))
    ELSE SetCol(d, col, series_fillna(Col(d, col), Str("")))

\* Lines 62-66: the loop over base_text_cols, columns 1..k done.
RECURSIVE base_text_loop(_, _)
base_text_loop(d, k) ==
    IF k = 0 THEN d
    ELSE base_text_col(base_text_loop(d, k - 1), base_text_cols[k])

\* Lines 74-78: the first candidate that is a column, <<>> when none is.
RECURSIVE first_candidate(_, _, _)
first_candidate(d, candidates, k) ==
    IF k > Len(candidates) THEN <<>>
    ELSE IF candidates[k] \in d.cols THEN <<candidates[k]>>
    ELSE first_candidate(d, candidates, k + 1)

\* map_text_col without the fillna("") of a target column that exists.
map_text_col_unfilled(d, target_col, candidates) ==
    IF target_col \in d.cols
    THEN d
    ELSE LET src_col == first_candidate(d, candidates, 1)
         IN  IF src_col # <<>>
             THEN SetCol(d, target_col, series_fillna(Col(d, src_col[1]), Str("")))
             ELSE SetCol(d, target_col, Scalar(d, Str("")))

\* Lines 70-83, for one entry of col_map.
map_text_col(d, target_col, candidates) ==
    IF target_col \in d.cols
    THEN SetCol(d, target_col, series_fillna(Col(d, target_col), Str("")))
    ELSE LET src_col == first_candidate(d, candidates, 1)
         IN  IF src_col # <<>>
             THEN SetCol(d, target_col, series_fillna(Col(d, src_col[1]), Str("")))
             ELSE SetCol(d, target_col, Scalar(d, Str("")))

\* Lines 69-83: the loop over col_map, entries 1..k done.
RECURSIVE map_text_loop(_, _)
map_text_loop(d, k) ==
    IF k = 0 THEN d
    ELSE map_text_col(map_text_loop(d, k - 1), col_map[k].target, col_map[k].candidates)

\* Lines 23-85: the normalisation of an accepted record list.
normalize(data) ==
    map_text_loop(
        base_text_loop(
            resolve_downtime(parse_date(resolve_date(DataFrame(data)))),
            Len(base_text_cols)),
        Len(col_map))

\* Lines 12-85.  f is the input file: [kind, data], kind "missing" when the
\* path does not exist, "notlist" when the JSON root is no array.
load_logs(f) ==
    IF f.kind = "missing" THEN [err |-> "FileNotFoundError", df |-> EmptyDF]
    ELSE IF f.kind # "list" THEN [err |-> "ValueError: root", df |-> EmptyDF]
    ELSE IF ~ has_date_column(DataFrame(f.data))
         THEN [err |-> "ValueError: date", df |-> EmptyDF]
    ELSE [err |-> "none", df |-> normalize(f.data)]

-----------------------------------------------------------------------------
(* export_json.py: build_summary *)

\* The texts of the model in Python's string order (code point order):
\* "" < digits < upper case < lower case.
StrOrder ==
    << "", "2024-01", "2024-02", "A", "B",
       "E01", "E02", "E03", "E04", "E05", "E06", "E07", "E08", "E09", "E10",
       "E11", "E12", "E13", "E14", "E15", "E16", "E17", "E18", "E19", "E20",
       "E21", "E22", "E23", "E24", "E25", "E26",
       "Elec", "Mech", "NaT", "P1", "P2", "S1", "S2", "abc" >>

StrRank(x) == CHOOSE i \in 1..Len(StrOrder) : StrOrder[i] = x

\* The outcomes of a sort among rows of equal key.  sort_values is called
\* without kind=, so it sorts with "quicksort", which promises no order
\* among equal keys: "stable" keeps them as they were, "reversed" does not.
TieOrders == {"stable", "reversed"}

\* group_keys that takes the empty text for a missing key and drops it.
group_keys_without_empty(d, col) ==
    SelectSeq(StrOrder,
              LAMBDA x : x # "" /\ \E i \in 1..Len(d.rows) : d.rows[i][col] = Str(x))

\* df.groupby(col) with its defaults sort=True, dropna=True: the group keys
\* are the distinct non-missing values of the column, in sorted order.
group_keys(d, col) ==
    SelectSeq(StrOrder,
              LAMBDA x : \E i \in 1..Len(d.rows) : d.rows[i][col] = Str(x))

\* .size() of one group.
group_size(d, col, x) ==
    Cardinality({i \in 1..Len(d.rows) : d.rows[i][col] = Str(x)})

\* ["downtime"].sum() of one group, rows 1..i.
RECURSIVE group_sum(_, _, _, _)
group_sum(d, col, x, i) ==
    IF i = 0 THEN 0
    ELSE group_sum(d, col, x, i - 1)
         + (IF d.rows[i][col] = Str(x) THEN d.rows[i]["downtime"].n ELSE 0)

\* The order of a sort key: numbers and timestamps by value, texts in
\* string order.
key_order(v) == IF v.t = "str" THEN StrRank(v.s) ELSE v.n

\* pandas nargsort(keys, ascending, na_position="last"): the row positions in
\* sorted order.  Rows whose key is missing go last, in their original order;
\* the others are ordered by key, rows of equal key as `tie` says.
nargsort(keys, ascending, tie) ==
    LET n == Len(keys)
        Before(i, j) ==
            IF isna(keys[i]) THEN isna(keys[j]) /\ i < j
            ELSE IF isna(keys[j]) THEN TRUE
            ELSE IF key_order(keys[i]) # key_order(keys[j])
                 THEN (IF ascending THEN key_order(keys[i]) < key_order(keys[j])
                                    ELSE key_order(keys[i]) > key_order(keys[j]))
                 ELSE (IF tie = "stable" THEN i < j ELSE i > j)
        place == [i \in 1..n |-> 1 + Cardinality({j \in 1..n : j # i /\ Before(j, i)})]
    IN  [p \in 1..n |-> CHOOSE i \in 1..n : place[i] = p]

\* DataFrame.sort_values(by): the rows of t in the order of their keys.
sort_values(t, keys, ascending, tie) ==
    LET idx == nargsort(keys, ascending, tie)
    IN  [p \in 1..Len(t) |-> t[idx[p]]]

\* The sort keys of a grouped table: its number column `by`.
num_keys(t, by) == [g \in 1..Len(t) |-> Num(t[g][by])]

\* The sort keys of a grouped table sorted by its group key.
str_keys(t) == [g \in 1..Len(t) |-> Str(t[g].key)]

\* Lines 138 and 148: the number of rows kept by .head(20).
TopN == 20

\* The last n rows instead of the first n: DataFrame.tail(n).
tail(t, n) == SubSeq(t, (IF Len(t) < n THEN 0 ELSE Len(t) - n) + 1, Len(t))

\* DataFrame.head(n).
head(t, n) == SubSeq(t, 1, IF Len(t) < n THEN Len(t) ELSE n)

\* groupby(col).size().reset_index(name="Count")
size_table(d, col) ==
    LET ks == group_keys(d, col)
    IN  [g \in 1..Len(ks) |-> [key |-> ks[g], Count |-> group_size(d, col, ks[g])]]

\* groupby(col)["downtime"].sum().reset_index(name="TotalDowntimeMin")
sum_table(d, col) ==
    LET ks == group_keys(d, col)
    IN  [g \in 1..Len(ks) |->
           [key |-> ks[g], TotalDowntimeMin |-> group_sum(d, col, ks[g], Len(d.rows))]]

\* groupby(col)["downtime"].agg(Count="size", TotalDowntimeMin="sum",
\* AvgDowntimeMin="mean"); the mean is kept as the fraction sum / size.
agg_table(d, col) ==
    LET ks == group_keys(d, col)
    IN  [g \in 1..Len(ks) |->
           [key |-> ks[g],
            Count |-> group_size(d, col, ks[g]),
            TotalDowntimeMin |-> group_sum(d, col, ks[g], Len(d.rows)),
            AvgDowntimeMin |-> <<group_sum(d, col, ks[g], Len(d.rows)),
                                 group_size(d, col, ks[g])>>]]

\* Lines 93-98.
by_line_count(d, tie) ==
    LET t == size_table(d, "line")
    IN  sort_values(t, num_keys(t, "Count"), FALSE, tie)

\* Lines 102-107.
by_line_dt(d, tie) ==
    LET t == sum_table(d, "line")
    IN  sort_values(t, num_keys(t, "TotalDowntimeMin"), FALSE, tie)

\* Lines 111-116.
by_month_dt(d, tie) ==
    LET t == sum_table(d, "month")
    IN  sort_values(t, str_keys(t), TRUE, tie)

\* Lines 120-129.
by_cat(d, tie) ==
    LET t == agg_table(d, "category")
    IN  sort_values(t, num_keys(t, "TotalDowntimeMin"), FALSE, tie)

\* Lines 133-139.
by_equipment_count(d, tie) ==
    LET t == size_table(d, "equipment")
    IN  head(sort_values(t, num_keys(t, "Count"), FALSE, tie), TopN)

\* Lines 143-149.
by_equipment_dt(d, tie) ==
    LET t == sum_table(d, "equipment")
    IN  head(sort_values(t, num_keys(t, "TotalDowntimeMin"), FALSE, tie), TopN)

\* Line 153.  Each raw row carries pos, its position in the loaded table.
raw_logs(d, tie) ==
    sort_values([i \in 1..Len(d.rows) |-> [pos |-> i, row |-> d.rows[i]]],
                Col(d, "date"), TRUE, tie)

\* Lines 88-155: the tables by sheet name.
build_summary(d, tie) ==
    ("01_ByLine_Count"             :> by_line_count(d, tie)) @@
    ("02_ByLine_DowntimeMin"       :> by_line_dt(d, tie)) @@
    ("03_ByMonth_DowntimeMin"      :> by_month_dt(d, tie)) @@
    ("04_ByCategory"               :> by_cat(d, tie)) @@
    ("05_TopEquipment_Count"       :> by_equipment_count(d, tie)) @@
    ("06_TopEquipment_DowntimeMin" :> by_equipment_dt(d, tie)) @@
    ("99_Raw_Logs"                 :> raw_logs(d, tie))

\* Lines 158-163: one sheet per table.  sheet_name[:31] leaves each of the
\* seven names as it is: none is longer than 31 characters.
export_to_excel(tables) == [sheet_name \in DOMAIN tables |-> tables[sheet_name]]

-----------------------------------------------------------------------------
(* migrate_logs.py *)

\* dict.get(key, default)
get(r, key, default) == IF key \in DOMAIN r THEN r[key] ELSE default

\* new_record that reads the equipment under its new name.
new_record_asset_unrenamed(r) ==
    [Date          |-> get(r, "date", Str("")),
     line          |-> get(r, "line", Str("")),
     section       |-> get(r, "section", Str("")),
     asset_id      |-> get(r, "asset_id", Str("")),
     category      |-> get(r, "category", Str("")),
     downtime_min  |-> get(r, "downtime", Num(0)),
     root_cause    |-> get(r, "rootcause", Str("")),
     action_taken  |-> get(r, "action", Str("")),
     location_from |-> Str(""),
     location_to   |-> Str(""),
     timestamp     |-> get(r, "timestamp", Str("")),
     id            |-> get(r, "id", Str(""))]

\* new_record that reads the downtime under its new name.
new_record_downtime_unrenamed(r) ==
    [Date          |-> get(r, "date", Str("")),
     line          |-> get(r, "line", Str("")),
     section       |-> get(r, "section", Str("")),
     asset_id      |-> get(r, "equipment", Str("")),
     category      |-> get(r, "category", Str("")),
     downtime_min  |-> get(r, "downtime_min", Num(0)),
     root_cause    |-> get(r, "rootcause", Str("")),
     action_taken  |-> get(r, "action", Str("")),
     location_from |-> Str(""),
     location_to   |-> Str(""),
     timestamp     |-> get(r, "timestamp", Str("")),
     id            |-> get(r, "id", Str(""))]

\* Lines 20-45: the new record of one old record.
new_record(r) ==
    [Date          |-> get(r, "date", Str("")),
     line          |-> get(r, "line", Str("")),
     section       |-> get(r, "section", Str("")),
     asset_id      |-> get(r, "equipment", Str("")),
     category      |-> get(r, "category", Str("")),
     downtime_min  |-> get(r, "downtime", Num(0)),
     root_cause    |-> get(r, "rootcause", Str("")),
     action_taken  |-> get(r, "action", Str("")),
     location_from |-> Str(""),
     location_to   |-> Str(""),
     timestamp     |-> get(r, "timestamp", Str("")),
     id            |-> get(r, "id", Str(""))]

-----------------------------------------------------------------------------
(* The input files of the model *)

\* Longest record list of the three small families.
MaxLen == 2

\* Longest record list of the family with many equipments.
MaxLong == 22

NoKeys == [k \in {} |-> None]

\* A key that is absent, or present with one of the values.
Opt(key, values) == {NoKeys} \cup {key :> v : v \in values}

\* Records that differ in which of date / Date / downtime / downtime_min
\* they carry.
SchemaRecords ==
    { a @@ b @@ c @@ e :
        a \in Opt("date", {Str("2024-02-10")}),
        b \in Opt("Date", {Str("2024-01-05")}),
        c \in Opt("downtime", {Num(5)}),
        e \in Opt("downtime_min", {Num(7)}) }

\* Records that differ in the value of date and downtime.
ValueRecords ==
    { ("date" :> a) @@ b @@ c :
        a \in {Str("2024-01-20"), Str("bad")},
        b \in Opt("downtime", {None, Num(0 - 5), Str("abc"), Str("7")}),
        c \in Opt("line", {Str("A")}) }

BaseText ==
    { NoKeys,
      ("line" :> None) @@ ("section" :> None) @@ ("category" :> None),
      ("line" :> Str("A")) @@ ("section" :> Str("S1")) @@ ("category" :> Str("Mech")),
      ("line" :> Str("B")) @@ ("section" :> Str("S2")) @@ ("category" :> Str("Elec")) }

MappedText ==
    { NoKeys,
      ("equipment" :> Str("P1")) @@ ("rootcause" :> Str("abc")) @@ ("action" :> Str("abc"))
          @@ ("downtime" :> Num(5)),
      ("equipment" :> None) @@ ("rootcause" :> None) @@ ("action" :> None),
      ("asset_id" :> Str("P2")) @@ ("root_cause" :> Str("abc")) @@ ("action_taken" :> Str("abc"))
          @@ ("downtime_min" :> Num(7)) }

\* Records of the old schema, of the new schema, and with text left out.
TextRecords ==
    { ("date" :> Str("2024-01-05")) @@ a @@ b : a \in BaseText, b \in MappedText }

RECURSIVE ListsOf(_, _)
ListsOf(S, n) ==
    IF n = 0 THEN {<<>>}
    ELSE LET shorter == ListsOf(S, n - 1)
         IN  shorter \cup {Append(l, r) : l \in {x \in shorter : Len(x) = n - 1}, r \in S}

\* A list of n old-schema records over m equipments; p picks the downtimes.
LongList(n, m, p) ==
    [i \in 1..n |->
        ("date" :> Str("2024-01-05")) @@
        ("equipment" :> Str(StrOrder[5 + ((i * p) % m) + 1])) @@
        ("downtime" :> Num(IF p = 1 THEN 5 ELSE IF p = 2 THEN i ELSE ((i * 7) % 5) - 1))]

LongLists == {LongList(n, m, p) : n \in (TopN + 1)..MaxLong, m \in 1..MaxLong, p \in 1..3}

Files ==
    {[kind |-> "missing", data |-> <<>>], [kind |-> "notlist", data |-> <<>>]}
    \cup {[kind |-> "list", data |-> l] :
            l \in ListsOf(SchemaRecords, MaxLen) \cup ListsOf(ValueRecords, MaxLen)
                  \cup ListsOf(TextRecords, MaxLen) \cup LongLists}

-----------------------------------------------------------------------------
(* The two scripts as state machines.  run is the script that was started;  *)
(* workbook and out_json are the output files, <<>> while absent.           *)

Init ==
    /\ file \in Files
    /\ run \in {"export", "migrate"}
    /\ pc = "start"
    /\ err = "none"
    /\ df = EmptyDF
    /\ summary = <<>>
    /\ workbook = <<>>
    /\ old_data = <<>>
    /\ new_data = <<>>
    /\ out_json = <<>>

\* export_json.py line 170: df = load_logs(JSON_FILE); an error ends the run.
MainLoadLogs ==
    /\ run = "export" /\ pc = "start"
    /\ LET res == load_logs(file)
       IN  /\ err' = res.err
           /\ df' = res.df
           /\ pc' = IF res.err = "none" THEN "loaded" ELSE "failed"
    /\ UNCHANGED <<file, run, summary, workbook, old_data, new_data, out_json>>

\* export_json.py line 174: summary_tables = build_summary(df).
MainBuildSummary ==
    /\ run = "export" /\ pc = "loaded"
    /\ \E tie \in TieOrders : summary' = <<build_summary(df, tie)>>
    /\ pc' = "built"
    /\ UNCHANGED <<file, run, err, df, workbook, old_data, new_data, out_json>>

\* export_json.py line 177: export_to_excel(summary_tables, OUTPUT_FILE).
MainExportToExcel ==
    /\ run = "export" /\ pc = "built"
    /\ workbook' = <<export_to_excel(summary[1])>>
    /\ pc' = "done"
    /\ UNCHANGED <<file, run, err, df, summary, old_data, new_data, out_json>>

\* migrate_logs.py lines 8-17: the checks, the read, new_data = [].
MigrateRead ==
    /\ run = "migrate" /\ pc = "start"
    /\ IF file.kind = "missing"
       THEN err' = "FileNotFoundError" /\ pc' = "failed" /\ old_data' = old_data
       ELSE IF file.kind # "list"
       THEN err' = "ValueError: root" /\ pc' = "failed" /\ old_data' = old_data
       ELSE err' = err /\ pc' = "loop" /\ old_data' = file.data
    /\ new_data' = <<>>
    /\ UNCHANGED <<file, run, df, summary, workbook, out_json>>

\* migrate_logs.py lines 19-47: one turn of the loop.
MigrateLoop ==
    /\ run = "migrate" /\ pc = "loop"
    /\ Len(new_data) < Len(old_data)
    /\ new_data' = Append(new_data, new_record(old_data[Len(new_data) + 1]))
    /\ UNCHANGED <<file, run, pc, err, df, summary, workbook, old_data, out_json>>

\* MigrateWrite that does not wait for the end of the loop.
MigrateWriteEarly ==
    /\ run = "migrate" /\ pc = "loop"
    /\ out_json' = <<new_data>>
    /\ pc' = "done"
    /\ UNCHANGED <<file, run, err, df, summary, workbook, old_data, new_data>>

\* migrate_logs.py lines 49-50: the loop has ended, the file is written.
MigrateWrite ==
    /\ run = "migrate" /\ pc = "loop"
    /\ Len(new_data) = Len(old_data)
    /\ out_json' = <<new_data>>
    /\ pc' = "done"
    /\ UNCHANGED <<file, run, err, df, summary, workbook, old_data, new_data>>

Next ==
    \/ MainLoadLogs
    \/ MainBuildSummary
    \/ MainExportToExcel
    \/ MigrateRead
    \/ MigrateLoop
    \/ MigrateWrite

Spec == Init /\ [][Next]_vars

-----------------------------------------------------------------------------
(* Vocabulary of the properties *)

\* load_logs has returned a table.
Loaded == run = "export" /\ pc \in {"loaded", "built", "done"}

\* build_summary has returned the tables.
Built == run = "export" /\ pc \in {"built", "done"}

\* migrate has written its file.
Migrated == run = "migrate" /\ pc = "done"

CanonicalFields ==
    {"date", "month", "downtime", "line", "section", "equipment", "category",
     "rootcause", "action"}

TextFields == {"line", "section", "equipment", "category", "rootcause", "action"}

\* The fallback name of a canonical text field, the field itself when it has none.
FallbackOf(c) ==
    CASE c = "equipment" -> "asset_id"
      [] c = "rootcause" -> "root_cause"
      [] c = "action"    -> "action_taken"
      [] OTHER           -> c

\* The record has no usable value under the key: no such key, or null.
Lacks(r, key) == key \notin DOMAIN r \/ r[key] = None

\* The rows of the loaded table whose column col holds the text x.
RowsWith(col, x) == {i \in 1..Len(df.rows) : df.rows[i][col] = Str(x)}

\* The sum of downtime over a set of rows, one row at a time.
RECURSIVE DowntimeOf(_)
DowntimeOf(S) ==
    IF S = {} THEN 0
    ELSE LET i == CHOOSE j \in S : TRUE
         IN  df.rows[i]["downtime"].n + DowntimeOf(S \ {i})

-----------------------------------------------------------------------------
(* C1 *)

\* C1: whenever load_logs returns, the table has one row per input record,
\* every row has all nine canonical fields, none of the six text fields is
\* null or missing, and a text field for which the record has no value
\* (neither under its own name nor under its fallback name; absent or null)
\* is the empty string.
C1_CanonicalFieldsNeverNull ==
    Loaded =>
        /\ Len(df.rows) = Len(file.data)
        /\ \A i \in 1..Len(df.rows) :
              /\ CanonicalFields \subseteq DOMAIN df.rows[i]
              /\ \A c \in TextFields :
                    /\ ~ isna(df.rows[i][c])
                    /\ (Lacks(file.data[i], c) /\ Lacks(file.data[i], FallbackOf(c)))
                           => df.rows[i][c] = Str("")

\* A loaded list in which one record has no line and another has a null
\* equipment, next to a record that does carry equipment.
C1_Witness ==
    /\ Loaded
    /\ \E i, j, k \in 1..Len(file.data) :
          /\ "line" \notin DOMAIN file.data[i]
          /\ "equipment" \in DOMAIN file.data[j] /\ file.data[j]["equipment"] = None
          /\ df.rows[j]["equipment"] = Str("")
          /\ "equipment" \in DOMAIN file.data[k] /\ file.data[k]["equipment"] = Str("P1")

-----------------------------------------------------------------------------
(* C2 *)

\* C2: the downtime of every normalized record is a number >= 0.
C2_DowntimeNonNegative ==
    Loaded =>
        \A i \in 1..Len(df.rows) :
            df.rows[i]["downtime"].t = "num" /\ df.rows[i]["downtime"].n >= 0

-----------------------------------------------------------------------------
(* C3 *)

\* C3: a list holding a record with neither date nor Date makes load_logs
\* fail with the missing-date error, and no workbook is written.
C3_MissingDateAborts ==
    (/\ run = "export" /\ pc # "start" /\ file.kind = "list"
     /\ \E i \in 1..Len(file.data) :
           "date" \notin DOMAIN file.data[i] /\ "Date" \notin DOMAIN file.data[i])
    => (pc = "failed" /\ err = "ValueError: date" /\ workbook = <<>>)

-----------------------------------------------------------------------------
(* C4 *)

Coerced(v) == fillna(to_numeric(v), Num(0))

\* The downtime the record's own fields resolve to.
OwnDowntime(r) ==
    IF "downtime" \in DOMAIN r THEN Coerced(r["downtime"])
    ELSE IF "downtime_min" \in DOMAIN r THEN Coerced(r["downtime_min"])
    ELSE Num(0)

\* The text the record's own fields resolve to.
OwnText(r, c) ==
    IF c \in DOMAIN r THEN fillna(r[c], Str(""))
    ELSE IF FallbackOf(c) \in DOMAIN r THEN fillna(r[FallbackOf(c)], Str(""))
    ELSE Str("")

\* C4: fallback resolution is record by record: each normalized downtime,
\* equipment, rootcause and action is resolved from that record's own fields.
C4_PerRecordFallback ==
    Loaded =>
        \A i \in 1..Len(df.rows) :
            /\ df.rows[i]["downtime"] = OwnDowntime(file.data[i])
            /\ \A c \in {"equipment", "rootcause", "action"} :
                  df.rows[i][c] = OwnText(file.data[i], c)

-----------------------------------------------------------------------------
(* C5 *)

NewKeys ==
    {"Date", "line", "section", "asset_id", "category", "downtime_min", "root_cause",
     "action_taken", "location_from", "location_to", "timestamp", "id"}

\* The old field each new field is read from.
OldNameOf(k) ==
    CASE k = "Date"         -> "date"
      [] k = "asset_id"     -> "equipment"
      [] k = "downtime_min" -> "downtime"
      [] k = "root_cause"   -> "rootcause"
      [] k = "action_taken" -> "action"
      [] OTHER              -> k

\* C5: the file written by migrate has one record per input record, in the
\* input's order; every record has exactly the twelve new keys; location_from
\* and location_to are ""; every other key holds the input record's value of
\* the corresponding old key, "" (0 for downtime_min) when the record has none.
C5_MigrateOneToOne ==
    Migrated =>
        /\ Len(out_json[1]) = Len(file.data)
        /\ \A i \in 1..Len(file.data) :
              /\ DOMAIN out_json[1][i] = NewKeys
              /\ \A k \in NewKeys :
                    out_json[1][i][k] =
                        IF k \in {"location_from", "location_to"} THEN Str("")
                        ELSE IF OldNameOf(k) \in DOMAIN file.data[i]
                             THEN file.data[i][OldNameOf(k)]
                        ELSE IF k = "downtime_min" THEN Num(0)
                        ELSE Str("")

\* A migrated list of two different records, one with and one without
\* equipment and downtime.
C5_Witness ==
    /\ Migrated
    /\ Len(file.data) >= 2
    /\ \E i, j \in 1..Len(file.data) :
          /\ i < j
          /\ "equipment" \in DOMAIN file.data[i] /\ "downtime" \in DOMAIN file.data[i]
          /\ "equipment" \notin DOMAIN file.data[j] /\ "downtime" \notin DOMAIN file.data[j]
          /\ out_json[1][i]["asset_id"] = Str("P1")
          /\ out_json[1][j]["downtime_min"] = Num(0)

-----------------------------------------------------------------------------
(* C6 *)

OldKeys ==
    {"date", "line", "section", "equipment", "category", "downtime", "rootcause",
     "action", "timestamp", "id"}

\* Every record of the input list has old-schema keys only.
OldSchema == \A i \in 1..Len(file.data) : DOMAIN file.data[i] \subseteq OldKeys

RoundTripFields == {"line", "section", "category", "downtime"}

\* C6: for an old-schema list that load_logs accepts, load_logs also accepts
\* the list written by migrate, and the two tables agree, position by
\* position, on line, section, category and downtime.
C6_RoundTrip ==
    (Migrated /\ OldSchema /\ load_logs(file).err = "none") =>
        LET before == load_logs(file)
            after  == load_logs([kind |-> "list", data |-> out_json[1]])
        IN  /\ after.err = "none"
            /\ Len(after.df.rows) = Len(before.df.rows)
            /\ \A i \in 1..Len(before.df.rows) :
                  \A c \in RoundTripFields : after.df.rows[i][c] = before.df.rows[i][c]

\* A migrated old-schema list in which one record has a line and a downtime
\* other than 0 and another record has neither.
C6_Witness ==
    /\ Migrated /\ OldSchema /\ load_logs(file).err = "none"
    /\ \E i, j \in 1..Len(file.data) :
          /\ "downtime" \in DOMAIN file.data[i] /\ "line" \in DOMAIN file.data[i]
          /\ load_logs(file).df.rows[i]["downtime"].n # 0
          /\ "downtime" \notin DOMAIN file.data[j] /\ "line" \notin DOMAIN file.data[j]

-----------------------------------------------------------------------------
(* C7 *)

RECURSIVE TotalOf(_, _)
TotalOf(view, g) ==
    IF g = 0 THEN 0 ELSE TotalOf(view, g - 1) + view[g].TotalDowntimeMin

\* C7: the TotalDowntimeMin of the by-line downtime view add up to the sum of
\* downtime over all normalized records, and when some record's line is ""
\* both by-line views have a row with key "" that counts, respectively sums,
\* exactly the records whose line is "".
C7_ByLineDropsNothing ==
    Built =>
        LET cnt == summary[1]["01_ByLine_Count"]
            dt  == summary[1]["02_ByLine_DowntimeMin"]
        IN  /\ TotalOf(dt, Len(dt)) = DowntimeOf(1..Len(df.rows))
            /\ RowsWith("line", "") # {} =>
                  /\ \E g \in 1..Len(cnt) :
                        cnt[g].key = "" /\ cnt[g].Count = Cardinality(RowsWith("line", ""))
                  /\ \E g \in 1..Len(dt) :
                        dt[g].key = ""
                        /\ dt[g].TotalDowntimeMin = DowntimeOf(RowsWith("line", ""))

\* Tables built from a list with a record whose line is "" and whose downtime
\* is not 0, and a record of line "A".
C7_Witness ==
    /\ Built
    /\ \E i, j \in 1..Len(df.rows) :
          /\ df.rows[i]["line"] = Str("") /\ df.rows[i]["downtime"].n # 0
          /\ df.rows[j]["line"] = Str("A")

-----------------------------------------------------------------------------
(* C8 *)

\* C8: an output file exists only when its script has run to its end without
\* error on the whole input list; a run that failed (input file missing, root
\* no array, no date column) has written nothing; and a missing file or a root
\* that is no array always fails the run.
C8_NoPartialOutput ==
    /\ workbook # <<>> =>
          /\ run = "export" /\ pc = "done" /\ err = "none"
          /\ file.kind = "list"
          /\ DOMAIN workbook[1] = DOMAIN summary[1]
          /\ Len(workbook[1]["99_Raw_Logs"]) = Len(file.data)
    /\ out_json # <<>> =>
          /\ run = "migrate" /\ pc = "done" /\ err = "none"
          /\ file.kind = "list"
          /\ Len(out_json[1]) = Len(file.data)
    /\ pc = "failed" => (err # "none" /\ workbook = <<>> /\ out_json = <<>>)
    /\ (pc # "start" /\ file.kind # "list") => pc = "failed"
    /\ (pc \notin {"start", "failed"} /\ run = "export") => has_date_column(DataFrame(file.data))

\* A run of the export that failed with the missing-date error on a list that
\* is not empty, and so wrote nothing.
C8_Witness ==
    /\ run = "export" /\ pc = "failed" /\ err = "ValueError: date"
    /\ Len(file.data) > 0
    /\ workbook = <<>>

-----------------------------------------------------------------------------
(* C9 *)

\* The equipment values of the loaded table.
Equipments == {df.rows[i]["equipment"].s : i \in 1..Len(df.rows)}

InView(view, x) == \E g \in 1..Len(view) : view[g].key = x

\* C9: each top-equipment view has min(20, number of equipments) rows of
\* different equipments, in non-increasing order of its value; each value is
\* the count, respectively the downtime sum, of the records of that equipment;
\* and no equipment left out has a greater value than one that is in.
C9_TopEquipment ==
    Built =>
        LET cnt == summary[1]["05_TopEquipment_Count"]
            dt  == summary[1]["06_TopEquipment_DowntimeMin"]
            rows == IF Cardinality(Equipments) < 20 THEN Cardinality(Equipments) ELSE 20
        IN  /\ Len(cnt) = rows /\ Len(dt) = rows
            /\ \A g, h \in 1..rows :
                  g < h => /\ cnt[g].Count >= cnt[h].Count
                           /\ dt[g].TotalDowntimeMin >= dt[h].TotalDowntimeMin
                           /\ cnt[g].key # cnt[h].key
                           /\ dt[g].key # dt[h].key
            /\ \A g \in 1..rows :
                  /\ cnt[g].key \in Equipments
                  /\ cnt[g].Count = Cardinality(RowsWith("equipment", cnt[g].key))
                  /\ dt[g].key \in Equipments
                  /\ dt[g].TotalDowntimeMin = DowntimeOf(RowsWith("equipment", dt[g].key))
            /\ \A x \in Equipments : \A g \in 1..rows :
                  /\ ~ InView(cnt, x) => Cardinality(RowsWith("equipment", x)) <= cnt[g].Count
                  /\ ~ InView(dt, x) => DowntimeOf(RowsWith("equipment", x)) <= dt[g].TotalDowntimeMin

\* Tables built from a list with more than 20 equipments whose counts and
\* whose downtime sums are not all the same.
C9_Witness ==
    /\ Built
    /\ Cardinality(Equipments) > 20
    /\ \E x, y \in Equipments :
          /\ Cardinality(RowsWith("equipment", x)) > Cardinality(RowsWith("equipment", y))
    /\ \E x, y \in Equipments :
          /\ DowntimeOf(RowsWith("equipment", x)) > DowntimeOf(RowsWith("equipment", y))
          /\ ~ InView(summary[1]["06_TopEquipment_DowntimeMin"], y)

-----------------------------------------------------------------------------
(* C10 *)

\* The position of the first record of the loaded table with the key.
FirstRow(col, x) == CHOOSE i \in RowsWith(col, x) : \A j \in RowsWith(col, x) : i <= j

\* Rows g < h of a grouped view that tie on the sort value are in the order
\* in which their keys first occur in the list.
TiesByFirstRow(view, col, by) ==
    \A g, h \in 1..Len(view) :
        (g < h /\ view[g][by] = view[h][by])
            => FirstRow(col, view[g].key) < FirstRow(col, view[h].key)

\* C10: ties are broken by original record order: raw-log rows of equal date
\* are in input order, and groups of equal sort value are in the order in
\* which their keys first occur in the input list.
C10_TiesInRecordOrder ==
    Built =>
        /\ LET raw == summary[1]["99_Raw_Logs"]
           IN  \A g, h \in 1..Len(raw) :
                  (g < h /\ raw[g].row["date"] = raw[h].row["date"]) => raw[g].pos < raw[h].pos
        /\ TiesByFirstRow(summary[1]["01_ByLine_Count"], "line", "Count")
        /\ TiesByFirstRow(summary[1]["02_ByLine_DowntimeMin"], "line",
                          "TotalDowntimeMin")
        /\ TiesByFirstRow(summary[1]["04_ByCategory"], "category",
                          "TotalDowntimeMin")
        /\ TiesByFirstRow(summary[1]["05_TopEquipment_Count"], "equipment",
                          "Count")
        /\ TiesByFirstRow(summary[1]["06_TopEquipment_DowntimeMin"], "equipment",
                          "TotalDowntimeMin")

====
